---- MODULE Spec2Model ----
(***************************************************************************)
(* A model of mm.c, the segregated-free-list allocator of malloc-lab.      *)
(*                                                                         *)
(* The heap is modelled at the granularity the code works at: 4-byte words *)
(* at byte addresses, written through PUT_NOTAG / SET_PTR and read through *)
(* GET.  mm.c stores pointers in unsigned int words, so it is a 32-bit     *)
(* program: size_t, unsigned int, int and pointers are all 32 bits wide.   *)
(* A 32-bit word is represented by the integer in -2^31 .. 2^31-1 that is  *)
(* congruent to it modulo 2^32 (its value read as an int); the unsigned    *)
(* value SIZE_MAX is therefore written -1.  Arithmetic on words wraps      *)
(* around (AddW, SubW) and size_t comparisons are unsigned (LtU, GtU).     *)
(***************************************************************************)
EXTENDS Integers, Sequences, FiniteSets, TLC

VARIABLES
    mem,                    \* the bytes of the heap arena: word address -> word
    mem_brk,                \* memlib's break: first byte after the heap
    segregated_free_lists,  \* the 20 bucket heads
    junk,                   \* the value any never-written word of the arena holds
    status,                 \* "fresh" before mm_init, "ok", or how the program died
    allocs,                 \* the caller's live allocations: <<[ptr, req]>>
    last,                   \* the last public call: its arguments and result
    pre,                    \* mem, mem_brk and the bucket heads before that call
    hist,                   \* whether mm_realloc / a wrapping size was ever used
    nops                    \* number of public calls made so far

vars == <<mem, mem_brk, segregated_free_lists, junk, status,
          allocs, last, pre, hist, nops>>

-----------------------------------------------------------------------------
(* Bounds of the model *)

\* public calls in one run
MaxOps == 4
\* allocations the caller holds at one time
MaxLive == 3
\* bytes of a region the caller fills with its pattern
MaxFill == 16

-----------------------------------------------------------------------------
(* Program constants *)

ALIGNMENT == 8
WSIZE == 4
DSIZE == 8
INITCHUNKSIZE == 64
CHUNKSIZE == 4096
LISTLIMIT == 20
REALLOC_BUFFER == 128
NULL == 0
\* asize threshold of place() for putting the remainder first
SPLIT_THRESHOLD == 73
\* the largest int, INT_MAX
INT_MAX == 2147483647
\* first byte of the arena (memlib's mem_start_brk); 8-byte aligned
mem_start_brk == 65536
\* size of the arena memlib allocates, 20*(1<<20)
MAX_HEAP == 20971520

INT_MIN == -INT_MAX - 1
\* first byte after the arena
mem_max_addr == mem_start_brk + MAX_HEAP

-----------------------------------------------------------------------------
(* 32-bit arithmetic *)

\* a + b modulo 2^32
AddW(a, b) ==
    IF a >= 0 /\ b >= 0 /\ a > INT_MAX - b
        THEN (a - INT_MAX - 1) + (b - INT_MAX - 1)
    ELSE IF a < 0 /\ b < 0 /\ a < INT_MIN - b
        THEN (a + INT_MAX + 1) + (b + INT_MAX + 1)
    ELSE a + b

\* -a modulo 2^32
NegW(a) == IF a = INT_MIN THEN INT_MIN ELSE 0 - a

\* a - b modulo 2^32
SubW(a, b) == AddW(a, NegW(b))

\* unsigned comparisons
LtU(a, b) == IF (a >= 0) = (b >= 0) THEN a < b ELSE a >= 0
GtU(a, b) == LtU(b, a)
LeU(a, b) == ~LtU(b, a)

\* x >> 1 on an unsigned word
ShrU(a) == IF a >= 0 THEN a \div 2 ELSE ((a \div 2) + INT_MAX) + 1

\* x & ~0x7
ClearLow3(a) == a - (a % 8)

\* MAX on size_t operands (mm_malloc) and on int operands (mm_realloc, where
\* neither operand has overflowed)
MAX(x, y) == IF GtU(x, y) THEN x ELSE y
MAX_int(x, y) == IF x > y THEN x ELSE y
\* MIN on size_t operands
MIN(x, y) == IF LtU(x, y) THEN x ELSE y

ALIGN(size) == ClearLow3(AddW(size, ALIGNMENT - 1))

\* size | alloc, alloc being 0 or 1
PACK(size, alloc) == IF size % 2 = 1 THEN size ELSE size + alloc

-----------------------------------------------------------------------------
(* The machine state a function of mm.c works on:                          *)
(*   mem, brk, lists, junk as the variables;                               *)
(*   st    "ok", "fault" (an access outside the arena, through a NULL or   *)
(*         wild pointer: undefined behaviour, taken to end the program),   *)
(*         or "hang" (a list walk that never ends);                        *)
(*   sbrk  the mem_sbrk calls of the current public call: <<incr, ok>>.    *)

\* an address the program may read or write: a word of memlib's arena
Valid(h, p) == p % WSIZE = 0 /\ p >= mem_start_brk /\ p <= mem_max_addr - WSIZE

Fault(h) == IF h.st = "ok" THEN [h EXCEPT !.st = "fault"] ELSE h

\* h after the program has read the words at the addresses ps
Touch(h, ps) == IF \A p \in ps : Valid(h, p) THEN h ELSE Fault(h)

GET(h, p) == IF p \in DOMAIN h.mem THEN h.mem[p] ELSE h.junk

PUT_NOTAG(h, p, val) ==
    IF h.st # "ok" THEN h
    ELSE IF ~Valid(h, p) THEN Fault(h)
    ELSE [h EXCEPT !.mem = [a \in (DOMAIN h.mem) \cup {p} |->
                               IF a = p THEN val ELSE h.mem[a]]]

SET_PTR(h, p, ptr) == PUT_NOTAG(h, p, ptr)

GET_SIZE(h, p) == ClearLow3(GET(h, p))
GET_ALLOC(h, p) == GET(h, p) % 2

HDRP(ptr) == SubW(ptr, WSIZE)
FTRP(h, ptr) == SubW(AddW(ptr, GET_SIZE(h, HDRP(ptr))), DSIZE)
NEXT_BLKP(h, ptr) == AddW(ptr, GET_SIZE(h, SubW(ptr, WSIZE)))
PREV_BLKP(h, ptr) == SubW(ptr, GET_SIZE(h, SubW(ptr, DSIZE)))

PRED_PTR(ptr) == ptr
SUCC_PTR(ptr) == AddW(ptr, WSIZE)
PRED(h, ptr) == GET(h, ptr)
SUCC(h, ptr) == GET(h, SUCC_PTR(ptr))

SetList(h, list, ptr) ==
    IF h.st # "ok" THEN h ELSE [h EXCEPT !.lists[list] = ptr]

-----------------------------------------------------------------------------
(* memlib: mem_sbrk(int incr) *)

\* [h, ret]: ret is the old break, or -1 when the arena has no room
mem_sbrk(h, incr) ==
    IF incr < 0 \/ incr > mem_max_addr - h.brk
        THEN [h |-> [h EXCEPT !.sbrk = Append(@, <<incr, FALSE>>)], ret |-> -1]
    ELSE [h |-> [h EXCEPT !.brk = h.brk + incr,
                          !.sbrk = Append(@, <<incr, TRUE>>)],
          ret |-> h.brk]

-----------------------------------------------------------------------------
(* The segregated index: insert_node and delete_node *)

RECURSIVE SelectList(_, _)
\* the bucket-selection loop: shifts size right until it is 1 or list is 19
SelectList(list, size) ==
    IF list < LISTLIMIT - 1 /\ GtU(size, 1)
        THEN SelectList(list + 1, ShrU(size))
    ELSE [list |-> list, size |-> size]

RECURSIVE InsertSearch(_, _, _, _, _)
\* the search loop of insert_node; size is what the selection loop left of it
InsertSearch(h, search_ptr, insert_ptr, size, seen) ==
    IF search_ptr = NULL
        THEN [search_ptr |-> search_ptr, insert_ptr |-> insert_ptr, st |-> "ok"]
    ELSE IF ~Valid(h, HDRP(search_ptr))
        THEN [search_ptr |-> search_ptr, insert_ptr |-> insert_ptr, st |-> "fault"]
    ELSE IF ~GtU(size, GET_SIZE(h, HDRP(search_ptr)))
        THEN [search_ptr |-> search_ptr, insert_ptr |-> insert_ptr, st |-> "ok"]
    ELSE IF ~Valid(h, search_ptr)
        THEN [search_ptr |-> search_ptr, insert_ptr |-> insert_ptr, st |-> "fault"]
    ELSE IF search_ptr \in seen
        THEN [search_ptr |-> search_ptr, insert_ptr |-> insert_ptr, st |-> "hang"]
    ELSE InsertSearch(h, PRED(h, search_ptr), search_ptr, size,
                      seen \cup {search_ptr})

\* the four cases of insert_node once its loops have left list, and
\* w.search_ptr and w.insert_ptr
insert_node_link(h, ptr, list, w) ==
    IF w.st # "ok" THEN [h EXCEPT !.st = w.st]
    ELSE IF w.search_ptr # NULL THEN
        IF w.insert_ptr # NULL THEN
            LET h1 == SET_PTR(h, PRED_PTR(ptr), w.search_ptr)
                h2 == SET_PTR(h1, SUCC_PTR(w.search_ptr), ptr)
                h3 == SET_PTR(h2, SUCC_PTR(ptr), w.insert_ptr)
            IN  SET_PTR(h3, PRED_PTR(w.insert_ptr), ptr)
        ELSE
            LET h1 == SET_PTR(h, PRED_PTR(ptr), w.search_ptr)
                h2 == SET_PTR(h1, SUCC_PTR(w.search_ptr), ptr)
                h3 == SET_PTR(h2, SUCC_PTR(ptr), NULL)
            IN  SetList(h3, list, ptr)
    ELSE
        IF w.insert_ptr # NULL THEN
            LET h1 == SET_PTR(h, PRED_PTR(ptr), NULL)
                h2 == SET_PTR(h1, SUCC_PTR(ptr), w.insert_ptr)
            IN  SET_PTR(h2, PRED_PTR(w.insert_ptr), ptr)
        ELSE
            LET h1 == SET_PTR(h, PRED_PTR(ptr), NULL)
                h2 == SET_PTR(h1, SUCC_PTR(ptr), NULL)
            IN  SetList(h2, list, ptr)

\* insert_node once the selection loop has left sel.list and sel.size
insert_node_search(h, ptr, sel) ==
    insert_node_link(h, ptr, sel.list,
                     InsertSearch(h, h.lists[sel.list], NULL, sel.size, {}))

insert_node(h, ptr, size) ==
    IF h.st # "ok" THEN h ELSE insert_node_search(h, ptr, SelectList(0, size))

\* the four cases of delete_node once its loop has left list
delete_node_unlink(h, ptr, list) ==
    IF PRED(h, ptr) # NULL THEN
        IF SUCC(h, ptr) # NULL THEN
            LET h1 == SET_PTR(h, SUCC_PTR(PRED(h, ptr)), SUCC(h, ptr))
            IN  SET_PTR(h1, PRED_PTR(SUCC(h1, ptr)), PRED(h1, ptr))
        ELSE
            LET h1 == SET_PTR(h, SUCC_PTR(PRED(h, ptr)), NULL)
            IN  SetList(h1, list, PRED(h1, ptr))
    ELSE
        IF SUCC(h, ptr) # NULL
            THEN SET_PTR(h, PRED_PTR(SUCC(h, ptr)), NULL)
        ELSE SetList(h, list, NULL)

\* delete_node once the words it reads are known to be in the arena
delete_node_select(h, ptr) ==
    IF h.st # "ok" THEN h
    ELSE delete_node_unlink(h, ptr, SelectList(0, GET_SIZE(h, HDRP(ptr))).list)

delete_node(h, ptr) ==
    delete_node_select(Touch(h, {HDRP(ptr), ptr, SUCC_PTR(ptr)}), ptr)

-----------------------------------------------------------------------------
(* coalesce, extend_heap, place: each gives [h, ret] *)

\* statements that read the machine they write to
PutHeader(h, ptr, val) == PUT_NOTAG(h, HDRP(ptr), val)
PutFooter(h, ptr, val) == PUT_NOTAG(h, FTRP(h, ptr), val)
PutNextHeader(h, ptr, val) == PUT_NOTAG(h, HDRP(NEXT_BLKP(h, ptr)), val)
PutNextFooter(h, ptr, val) == PUT_NOTAG(h, FTRP(h, NEXT_BLKP(h, ptr)), val)
PutPrevHeader(h, ptr, val) == PUT_NOTAG(h, HDRP(PREV_BLKP(h, ptr)), val)
DeleteNext(h, ptr) == delete_node(h, NEXT_BLKP(h, ptr))
DeletePrev(h, ptr) == delete_node(h, PREV_BLKP(h, ptr))
InsertNext(h, ptr, size) == insert_node(h, NEXT_BLKP(h, ptr), size)

\* the end of coalesce's cases 3 and 4: ptr = PREV_BLKP(ptr), insert, return
InsertPrev(h, ptr, size) ==
    [h |-> insert_node(h, PREV_BLKP(h, ptr), size), ret |-> PREV_BLKP(h, ptr)]

\* Case 2 once both nodes are deleted
coalesce_next(h, ptr, size0) ==
    LET size == AddW(size0, GET_SIZE(h, HDRP(NEXT_BLKP(h, ptr))))
        h1 == PutHeader(h, ptr, PACK(size, 0))
        h2 == PutFooter(h1, ptr, PACK(size, 0))
    IN  [h |-> insert_node(h2, ptr, size), ret |-> ptr]

\* Case 3 once both nodes are deleted
coalesce_prev(h, ptr, size0) ==
    LET size == AddW(size0, GET_SIZE(h, HDRP(PREV_BLKP(h, ptr))))
        h1 == PutFooter(h, ptr, PACK(size, 0))
        h2 == PutPrevHeader(h1, ptr, PACK(size, 0))
    IN  InsertPrev(h2, ptr, size)

\* Case 4 once the three nodes are deleted
coalesce_both(h, ptr, size0) ==
    LET size == AddW(size0, AddW(GET_SIZE(h, HDRP(PREV_BLKP(h, ptr))),
                                 GET_SIZE(h, HDRP(NEXT_BLKP(h, ptr)))))
        h1 == PutPrevHeader(h, ptr, PACK(size, 0))
        h2 == PutNextFooter(h1, ptr, PACK(size, 0))
    IN  InsertPrev(h2, ptr, size)

\* coalesce once the words it reads are known to be in the arena
coalesce_cases(h, ptr, prev_alloc, next_alloc, size) ==
    IF h.st # "ok" THEN [h |-> h, ret |-> ptr]
    ELSE IF prev_alloc = 1 /\ next_alloc = 1 THEN       \* Case 1
        [h |-> h, ret |-> ptr]
    ELSE IF prev_alloc = 1 /\ next_alloc = 0 THEN       \* Case 2
        LET h1 == delete_node(h, ptr)
            h2 == DeleteNext(h1, ptr)
        IN  coalesce_next(h2, ptr, size)
    ELSE IF prev_alloc = 0 /\ next_alloc = 1 THEN       \* Case 3
        LET h1 == delete_node(h, ptr)
            h2 == DeletePrev(h1, ptr)
        IN  coalesce_prev(h2, ptr, size)
    ELSE                                                \* Case 4
        LET h1 == delete_node(h, ptr)
            h2 == DeletePrev(h1, ptr)
            h3 == DeleteNext(h2, ptr)
        IN  coalesce_both(h3, ptr, size)

\* coalesce once ptr is known to be in the arena
coalesce_read(h, ptr) ==
    coalesce_cases(h, ptr, GET_ALLOC(h, HDRP(PREV_BLKP(h, ptr))),
                   GET_ALLOC(h, HDRP(NEXT_BLKP(h, ptr))), GET_SIZE(h, HDRP(ptr)))

coalesce(h, ptr) ==
    coalesce_read(Touch(h, {SubW(ptr, DSIZE), HDRP(PREV_BLKP(h, ptr)),
                            HDRP(ptr), HDRP(NEXT_BLKP(h, ptr))}), ptr)

\* extend_heap_block without the test of mem_sbrk's answer
extend_heap_block_unchecked(s, asize) ==
    LET h1 == PutHeader(s.h, s.ret, PACK(asize, 0))
        h2 == PutFooter(h1, s.ret, PACK(asize, 0))
        h3 == PutNextHeader(h2, s.ret, PACK(0, 1))
        h4 == insert_node(h3, s.ret, asize)
    IN  coalesce(h4, s.ret)

\* extend_heap once mem_sbrk has answered s
extend_heap_block(s, asize) ==
    IF s.ret = -1 THEN [h |-> s.h, ret |-> NULL]
    ELSE
        LET h1 == PutHeader(s.h, s.ret, PACK(asize, 0))
            h2 == PutFooter(h1, s.ret, PACK(asize, 0))
            h3 == PutNextHeader(h2, s.ret, PACK(0, 1))
            h4 == insert_node(h3, s.ret, asize)
        IN  coalesce(h4, s.ret)

extend_heap(h, size) ==
    IF h.st # "ok" THEN [h |-> h, ret |-> NULL]
    ELSE extend_heap_block(mem_sbrk(h, ALIGN(size)), ALIGN(size))

\* place_block with the no-split test remainder < 32
place_block_below32(h, ptr, asize, ptr_size, remainder) ==
    IF LtU(remainder, DSIZE * 4) THEN
        LET h1 == PutHeader(h, ptr, PACK(ptr_size, 1))
        IN  [h |-> PutFooter(h1, ptr, PACK(ptr_size, 1)), ret |-> ptr]
    ELSE IF ~LtU(asize, SPLIT_THRESHOLD) THEN
        LET h1 == PutHeader(h, ptr, PACK(remainder, 0))
            h2 == PutFooter(h1, ptr, PACK(remainder, 0))
            h3 == PutNextHeader(h2, ptr, PACK(asize, 1))
            h4 == PutNextFooter(h3, ptr, PACK(asize, 1))
            h5 == insert_node(h4, ptr, remainder)
        IN  [h |-> h5, ret |-> NEXT_BLKP(h5, ptr)]
    ELSE
        LET h1 == PutHeader(h, ptr, PACK(asize, 1))
            h2 == PutFooter(h1, ptr, PACK(asize, 1))
            h3 == PutNextHeader(h2, ptr, PACK(remainder, 0))
            h4 == PutNextFooter(h3, ptr, PACK(remainder, 0))
        IN  [h |-> InsertNext(h4, ptr, remainder), ret |-> ptr]

\* place_block with the direction test asize >= 72
place_block_from72(h, ptr, asize, ptr_size, remainder) ==
    IF LeU(remainder, DSIZE * 2) THEN
        LET h1 == PutHeader(h, ptr, PACK(ptr_size, 1))
        IN  [h |-> PutFooter(h1, ptr, PACK(ptr_size, 1)), ret |-> ptr]
    ELSE IF ~LtU(asize, SPLIT_THRESHOLD - 1) THEN
        LET h1 == PutHeader(h, ptr, PACK(remainder, 0))
            h2 == PutFooter(h1, ptr, PACK(remainder, 0))
            h3 == PutNextHeader(h2, ptr, PACK(asize, 1))
            h4 == PutNextFooter(h3, ptr, PACK(asize, 1))
            h5 == insert_node(h4, ptr, remainder)
        IN  [h |-> h5, ret |-> NEXT_BLKP(h5, ptr)]
    ELSE
        LET h1 == PutHeader(h, ptr, PACK(asize, 1))
            h2 == PutFooter(h1, ptr, PACK(asize, 1))
            h3 == PutNextHeader(h2, ptr, PACK(remainder, 0))
            h4 == PutNextFooter(h3, ptr, PACK(remainder, 0))
        IN  [h |-> InsertNext(h4, ptr, remainder), ret |-> ptr]

\* place once the node of ptr is deleted
place_block(h, ptr, asize, ptr_size, remainder) ==
    IF LeU(remainder, DSIZE * 2) THEN
        \* Do not split block
        LET h1 == PutHeader(h, ptr, PACK(ptr_size, 1))
        IN  [h |-> PutFooter(h1, ptr, PACK(ptr_size, 1)), ret |-> ptr]
    ELSE IF ~LtU(asize, SPLIT_THRESHOLD) THEN
        \* Split block, the remainder first
        LET h1 == PutHeader(h, ptr, PACK(remainder, 0))
            h2 == PutFooter(h1, ptr, PACK(remainder, 0))
            h3 == PutNextHeader(h2, ptr, PACK(asize, 1))
            h4 == PutNextFooter(h3, ptr, PACK(asize, 1))
            h5 == insert_node(h4, ptr, remainder)
        IN  [h |-> h5, ret |-> NEXT_BLKP(h5, ptr)]
    ELSE
        \* Split block, the allocated block first
        LET h1 == PutHeader(h, ptr, PACK(asize, 1))
            h2 == PutFooter(h1, ptr, PACK(asize, 1))
            h3 == PutNextHeader(h2, ptr, PACK(remainder, 0))
            h4 == PutNextFooter(h3, ptr, PACK(remainder, 0))
        IN  [h |-> InsertNext(h4, ptr, remainder), ret |-> ptr]

\* place once the header of ptr is known to be in the arena
place_read(h, ptr, asize, ptr_size) ==
    place_block(delete_node(h, ptr), ptr, asize, ptr_size, SubW(ptr_size, asize))

place(h, ptr, asize) ==
    place_read(Touch(h, {HDRP(ptr)}), ptr, asize, GET_SIZE(h, HDRP(ptr)))

-----------------------------------------------------------------------------
(* The public operations: each gives [h, ret] *)

\* mm_init once extend_heap has answered e
mm_init_result(e) ==
    IF e.ret = NULL THEN [h |-> e.h, ret |-> -1] ELSE [h |-> e.h, ret |-> 0]

\* mm_init once mem_sbrk has answered s
mm_init_heap(s) ==
    IF s.ret = -1 THEN [h |-> s.h, ret |-> -1]
    ELSE
        LET h1 == PUT_NOTAG(s.h, s.ret, 0)
            h2 == PUT_NOTAG(h1, s.ret + (1 * WSIZE), PACK(DSIZE, 1))
            h3 == PUT_NOTAG(h2, s.ret + (2 * WSIZE), PACK(DSIZE, 1))
            h4 == PUT_NOTAG(h3, s.ret + (3 * WSIZE), PACK(0, 1))
        IN  mm_init_result(extend_heap(h4, INITCHUNKSIZE))

mm_init(h0) ==
    mm_init_heap(mem_sbrk([h0 EXCEPT !.lists = [list \in 0..(LISTLIMIT - 1) |-> NULL]],
                          4 * WSIZE))

\* the adjusted block size of a request
AdjustedSize(size) ==
    IF LeU(size, DSIZE) THEN 2 * DSIZE ELSE ALIGN(AddW(size, DSIZE))

RECURSIVE FitWalk(_, _, _, _)
\* the inner loop of mm_malloc's search: first block of the list, walked by
\* PRED, whose size is at least asize
FitWalk(h, ptr, asize, seen) ==
    IF ptr = NULL THEN [ptr |-> NULL, st |-> "ok"]
    ELSE IF ~Valid(h, HDRP(ptr)) THEN [ptr |-> ptr, st |-> "fault"]
    ELSE IF ~GtU(asize, GET_SIZE(h, HDRP(ptr))) THEN [ptr |-> ptr, st |-> "ok"]
    ELSE IF ~Valid(h, ptr) THEN [ptr |-> ptr, st |-> "fault"]
    ELSE IF ptr \in seen THEN [ptr |-> ptr, st |-> "hang"]
    ELSE FitWalk(h, PRED(h, ptr), asize, seen \cup {ptr})

RECURSIVE SearchLists(_, _, _, _)
\* the outer loop of mm_malloc's search
SearchLists(h, list, searchsize, asize) ==
    IF list >= LISTLIMIT THEN [ptr |-> NULL, st |-> "ok"]
    ELSE IF list = LISTLIMIT - 1
            \/ (LeU(searchsize, 1) /\ h.lists[list] # NULL) THEN
        LET w == FitWalk(h, h.lists[list], asize, {})
        IN  IF w.st # "ok" \/ w.ptr # NULL THEN w
            ELSE SearchLists(h, list + 1, ShrU(searchsize), asize)
    ELSE SearchLists(h, list + 1, ShrU(searchsize), asize)

\* mm_malloc once extend_heap has answered e
mm_malloc_extended(e, asize) ==
    IF e.ret = NULL THEN [h |-> e.h, ret |-> NULL]
    ELSE place(e.h, e.ret, asize)

mm_malloc(h, size) ==
    LET asize == AdjustedSize(size)
        f == SearchLists(h, 0, asize, asize)
        extendsize == MAX(asize, CHUNKSIZE)
    IN  IF h.st # "ok" THEN [h |-> h, ret |-> NULL]
        ELSE IF size = 0 THEN [h |-> h, ret |-> NULL]
        ELSE IF f.st # "ok" THEN [h |-> [h EXCEPT !.st = f.st], ret |-> NULL]
        ELSE IF f.ptr = NULL
            THEN mm_malloc_extended(extend_heap(h, extendsize), asize)
        ELSE place(h, f.ptr, asize)

\* mm_free once the header of ptr is known to be in the arena
mm_free_block(h, ptr, size) ==
    LET h1 == PutHeader(h, ptr, PACK(size, 0))
        h2 == PutFooter(h1, ptr, PACK(size, 0))
        h3 == insert_node(h2, ptr, size)
    IN  coalesce(h3, ptr).h

mm_free(h, ptr) ==
    mm_free_block(Touch(h, {HDRP(ptr)}), ptr, GET_SIZE(h, HDRP(ptr)))

\* 256^k for k in 1..3
Pow256(k) == IF k = 1 THEN 256 ELSE IF k = 2 THEN 65536 ELSE 16777216

\* the word at dst once its k low-address bytes (little-endian: its low bytes)
\* are replaced by those of the word val
MergeBytes(old, val, k) ==
    IF k = 0 THEN old
    ELSE IF k >= WSIZE THEN val
    ELSE (old - (old % Pow256(k))) + (val % Pow256(k))

\* the word memcpy stores at the address a of its destination: word i of the
\* source, or word i % period of it when the regions overlap
CopiedWord(h, dst, src, n, period, a) ==
    LET i == (a - dst) \div WSIZE
        k == IF n - i * WSIZE >= WSIZE THEN WSIZE ELSE n - i * WSIZE
    IN  MergeBytes(GET(h, a), GET(h, src + (i % period) * WSIZE), k)

\* memcpy(dst, src, n), a word at a time (every pointer here is a multiple
\* of 4).  Overlapping regions are undefined behaviour: order says which copy
\* the library makes then, front to back ("forward": once the copy reaches
\* bytes it has already written, it repeats the first dst - src bytes) or of
\* the source as it was ("snapshot"); apart they give the same bytes.
memcpy(h, dst, src, n, order) ==
    IF h.st # "ok" THEN h
    ELSE IF n < 0 \/ n > MAX_HEAP THEN Fault(h)
    ELSE IF n = 0 THEN h
    ELSE
        LET nw == (n + WSIZE - 1) \div WSIZE
            lastd == dst + (nw - 1) * WSIZE
            lasts == src + (nw - 1) * WSIZE
            period == IF order = "forward" /\ dst > src /\ dst - src < n
                      THEN (dst - src) \div WSIZE ELSE nw
        IN  IF ~(Valid(h, dst) /\ Valid(h, lastd) /\ Valid(h, src) /\ Valid(h, lasts))
            THEN Fault(h)
            ELSE [h EXCEPT !.mem =
                     [a \in (DOMAIN h.mem) \cup {dst + i * WSIZE : i \in 0..(nw - 1)} |->
                         IF a >= dst /\ a <= lastd
                            THEN CopiedWord(h, dst, src, n, period, a)
                            ELSE h.mem[a]]]

\* mm_realloc's in-place growth once the heap holds the bytes: the next
\* block leaves the index and ptr takes new_size + remainder bytes
mm_realloc_absorb(h, ptr, new_size, remainder) ==
    LET hd == DeleteNext(h, ptr)
        g1 == PutHeader(hd, ptr, PACK(AddW(new_size, remainder), 1))
        g2 == PutFooter(g1, ptr, PACK(AddW(new_size, remainder), 1))
    IN  [h |-> Touch(g2, {HDRP(ptr)}), ret |-> ptr]

\* the same once extend_heap has answered e
mm_realloc_extended(e, ptr, new_size, remainder) ==
    IF e.ret = NULL THEN [h |-> e.h, ret |-> NULL]
    ELSE mm_realloc_absorb(e.h, ptr, new_size, remainder)

\* mm_realloc's copy once mm_malloc has answered m
mm_realloc_move(m, ptr, n, order) ==
    LET c == memcpy(m.h, m.ret, ptr, n, order)
        f == mm_free(c, ptr)
    IN  [h |-> Touch(f, {HDRP(m.ret)}), ret |-> m.ret]

\* extendsize = MAX(-remainder, CHUNKSIZE) for a negative int remainder. The
\* negation of INT_MIN overflows, which is undefined: ext is what the
\* expression gives then
extendsize(remainder, ext) ==
    IF remainder = INT_MIN THEN ext ELSE MAX_int(0 - remainder, CHUNKSIZE)

\* mm_realloc once block_buffer is negative and the header of the next block
\* is known to be in the arena; next is that block
mm_realloc_grow(h, ptr, size, new_size, order, ext, next, remainder) ==
    IF h.st # "ok" THEN [h |-> h, ret |-> NULL]
    ELSE IF GET_ALLOC(h, HDRP(next)) = 0 \/ GET_SIZE(h, HDRP(next)) = 0 THEN
        IF remainder < 0
            THEN mm_realloc_extended(
                     extend_heap(h, extendsize(remainder, ext)), ptr,
                     new_size,
                     AddW(remainder, extendsize(remainder, ext)))
        ELSE mm_realloc_absorb(h, ptr, new_size, remainder)
    ELSE mm_realloc_move(mm_malloc(h, SubW(new_size, DSIZE)), ptr,
                         MIN(size, new_size), order)

\* mm_realloc once block_buffer is negative and the header of the next block
\* is known to be in the arena
mm_realloc_next(h, ptr, size, new_size, order, ext) ==
    mm_realloc_grow(h, ptr, size, new_size, order, ext, NEXT_BLKP(h, ptr),
                    SubW(AddW(GET_SIZE(h, HDRP(ptr)),
                              GET_SIZE(h, HDRP(NEXT_BLKP(h, ptr)))), new_size))

\* mm_realloc_sized without the test of block_buffer: the next block is looked
\* at whatever room the block of ptr has
mm_realloc_sized_unbuffered(h, ptr, size, new_size, order, ext) ==
    IF h.st # "ok" THEN [h |-> h, ret |-> NULL]
    ELSE mm_realloc_next(Touch(h, {HDRP(NEXT_BLKP(h, ptr))}), ptr, size,
                         new_size, order, ext)

\* mm_realloc once the header of ptr is known to be in the arena
mm_realloc_sized(h, ptr, size, new_size, order, ext) ==
    IF h.st # "ok" THEN [h |-> h, ret |-> NULL]
    ELSE IF SubW(GET_SIZE(h, HDRP(ptr)), new_size) >= 0    \* block_buffer
        THEN [h |-> h, ret |-> ptr]
    ELSE mm_realloc_next(Touch(h, {HDRP(NEXT_BLKP(h, ptr))}), ptr, size,
                         new_size, order, ext)

\* mm_realloc without the test for a size of 0
mm_realloc_nozero(h, ptr, size, order, ext) ==
    IF h.st # "ok" THEN [h |-> h, ret |-> NULL]
    ELSE mm_realloc_sized(Touch(h, {HDRP(ptr)}), ptr, size,
                          AddW(AdjustedSize(size), REALLOC_BUFFER), order, ext)

\* mm_realloc without the REALLOC_BUFFER bytes added to the adjusted size
mm_realloc_nobuffer(h, ptr, size, order, ext) ==
    IF h.st # "ok" THEN [h |-> h, ret |-> NULL]
    ELSE IF size = 0 THEN [h |-> h, ret |-> NULL]
    ELSE mm_realloc_sized(Touch(h, {HDRP(ptr)}), ptr, size,
                          AdjustedSize(size), order, ext)

mm_realloc(h, ptr, size, order, ext) ==
    IF h.st # "ok" THEN [h |-> h, ret |-> NULL]
    ELSE IF size = 0 THEN [h |-> h, ret |-> NULL]
    ELSE mm_realloc_sized(Touch(h, {HDRP(ptr)}), ptr, size,
                          AddW(AdjustedSize(size), REALLOC_BUFFER), order, ext)

-----------------------------------------------------------------------------
(* The caller *)

\* a request no arena has room for, 2^30
HUGE == 1073741824
\* request sizes whose adjusted size wraps around 2^32: -1 is SIZE_MAX, -8 is
\* SIZE_MAX - 7
WrapSizes == {-1, -8}
\* request sizes whose adjusted size does not wrap
OrdinarySizes == {0, 8, 100, 4000, HUGE}
OrdinaryReallocSizes == {0, 8, 100, HUGE}
\* request sizes the caller passes to mm_malloc
MallocSizes == OrdinarySizes \cup WrapSizes
\* request sizes the caller passes to mm_realloc
ReallocSizes == OrdinaryReallocSizes \cup {-1}
\* the bytes the caller fills its regions with
Patterns == {90}
\* what a never-written word of the arena may hold
JunkWords == {0, 1}
CopyOrders == {"forward", "snapshot"}
\* what MAX(-remainder, CHUNKSIZE) may give for a remainder of INT_MIN: the
\* operand left as it is (the comparison made before the negation), or
\* CHUNKSIZE (the negation made first, wrapping to INT_MIN)
ExtendSizes == {INT_MIN, CHUNKSIZE}

\* the word made of four bytes b
PatternWord(b) == b * 16843009

RECURSIVE FillWords(_, _, _, _, _)
\* the caller stores the byte b in bytes i*4 .. n-1 of the region at ptr
FillWords(h, ptr, b, n, i) ==
    IF i * WSIZE >= n \/ h.st # "ok" THEN h
    ELSE
        LET d == AddW(ptr, i * WSIZE)
            k == IF n - i * WSIZE >= WSIZE THEN WSIZE ELSE n - i * WSIZE
            hr == Touch(h, {d})
            h1 == PUT_NOTAG(hr, d, MergeBytes(GET(hr, d), PatternWord(b), k))
        IN  FillWords(h1, ptr, b, n, i + 1)

\* the machine state of the current state
Machine ==
    [mem |-> mem, brk |-> mem_brk,
     lists |-> segregated_free_lists, junk |-> junk, st |-> "ok", sbrk |-> <<>>]

Snapshot == [mem |-> mem, brk |-> mem_brk, lists |-> segregated_free_lists]

\* the state after a call that left the machine in h
Commit(h, call) ==
    /\ pre' = Snapshot
    /\ last' = [call EXCEPT !.sbrk = h.sbrk]
    /\ UNCHANGED junk
    /\ IF h.st = "ok"
          THEN /\ mem' = h.mem
               /\ mem_brk' = h.brk
               /\ segregated_free_lists' = h.lists
               /\ status' = IF call.op = "init" /\ call.ret # 0
                                THEN "noinit" ELSE "ok"
          ELSE /\ UNCHANGED <<mem, mem_brk, segregated_free_lists>>
               /\ status' = h.st

\* a call: req is the size the region at ptr was requested with
Call(op, ptr, size, ret, req) ==
    [op |-> op, ptr |-> ptr, size |-> size, ret |-> ret, req |-> req,
     sbrk |-> <<>>]

RemoveAt(s, i) == [j \in 1..(Len(s) - 1) |-> IF j < i THEN s[j] ELSE s[j + 1]]

Init ==
    /\ mem = [a \in {} |-> 0]
    /\ mem_brk = mem_start_brk
    /\ segregated_free_lists = [list \in 0..(LISTLIMIT - 1) |-> NULL]
    /\ junk \in JunkWords
    /\ status = "fresh"
    /\ allocs = <<>>
    /\ last = Call("none", NULL, 0, 0, 0)
    /\ hist = [resized |-> FALSE, wrapped |-> FALSE]
    /\ pre = [mem |-> mem, brk |-> mem_brk, lists |-> segregated_free_lists]
    /\ nops = 0

\* the caller's allocations after a call that returned ret for size bytes:
\* the region i (0: a new one) is at ret now
Held(h, ret, size, i) ==
    IF h.st # "ok" \/ ret = NULL THEN allocs
    ELSE IF i = 0 THEN Append(allocs, [ptr |-> ret, req |-> size])
    ELSE [allocs EXCEPT ![i] = [ptr |-> ret, req |-> size]]

\* the state after mm_init has answered r
InitReturns(r) == Commit(r.h, Call("init", NULL, 0, r.ret, 0))

MmInit ==
    /\ status = "fresh"
    /\ InitReturns(mm_init(Machine))
    /\ UNCHANGED <<allocs, hist, nops>>

\* the state after mm_malloc(size) has answered r
MallocReturns(r, size) ==
    /\ Commit(r.h, Call("malloc", NULL, size, r.ret, 0))
    /\ allocs' = Held(r.h, r.ret, size, 0)

Malloc(size) ==
    /\ status = "ok"
    /\ nops < MaxOps
    /\ Len(allocs) < MaxLive
    /\ MallocReturns(mm_malloc(Machine, size), size)
    /\ hist' = [hist EXCEPT !.wrapped = @ \/ size \in WrapSizes]
    /\ nops' = nops + 1

\* the state after mm_free of the region i has left the machine in h
FreeReturns(h, i) ==
    /\ Commit(h, Call("free", allocs[i].ptr, 0, NULL, allocs[i].req))
    /\ allocs' = IF h.st = "ok" THEN RemoveAt(allocs, i) ELSE allocs

Free(i) ==
    /\ status = "ok"
    /\ nops < MaxOps
    /\ i \in 1..Len(allocs)
    /\ FreeReturns(mm_free(Machine, allocs[i].ptr), i)
    /\ UNCHANGED hist
    /\ nops' = nops + 1

\* the state after mm_realloc of the region i to size has answered r
ReallocReturns(r, i, size) ==
    /\ Commit(r.h, Call("realloc", allocs[i].ptr, size, r.ret, allocs[i].req))
    /\ allocs' = Held(r.h, r.ret, size, i)

Realloc(i, size, order, ext) ==
    /\ status = "ok"
    /\ nops < MaxOps
    /\ i \in 1..Len(allocs)
    /\ ReallocReturns(mm_realloc(Machine, allocs[i].ptr, size, order, ext),
                      i, size)
    /\ hist' = [resized |-> TRUE, wrapped |-> hist.wrapped \/ size \in WrapSizes]
    /\ nops' = nops + 1

\* the state after the caller's stores have left the machine in h
WriteReturns(h, i, b) ==
    /\ h.mem # mem \/ h.st # "ok"
    /\ Commit(h, Call("write", allocs[i].ptr, b, NULL, allocs[i].req))

UserWrite(i, b) ==
    /\ status = "ok"
    /\ nops < MaxOps
    /\ i \in 1..Len(allocs)
    /\ WriteReturns(FillWords(Machine, allocs[i].ptr, b,
                              MIN(allocs[i].req, MaxFill), 0), i, b)
    /\ UNCHANGED <<allocs, hist, nops>>

\* the calls a program makes, with every request size
Next ==
    \/ MmInit
    \/ \E size \in MallocSizes : Malloc(size)
    \/ \E i \in 1..MaxLive : Free(i)
    \/ \E i \in 1..MaxLive, size \in ReallocSizes, order \in CopyOrders,
          ext \in ExtendSizes :
             Realloc(i, size, order, ext)

Spec == Init /\ [][Next]_vars

\* the same calls, with request sizes whose adjusted size does not wrap
NextOrdinary ==
    \/ MmInit
    \/ \E size \in OrdinarySizes : Malloc(size)
    \/ \E i \in 1..MaxLive : Free(i)
    \/ \E i \in 1..MaxLive, size \in OrdinaryReallocSizes, order \in CopyOrders,
          ext \in ExtendSizes :
             Realloc(i, size, order, ext)

SpecOrdinary == Init /\ [][NextOrdinary]_vars

\* the calls of Next, and the program writing to the regions it holds
NextData ==
    \/ Next
    \/ \E i \in 1..MaxLive, b \in Patterns : UserWrite(i, b)

SpecData == Init /\ [][NextData]_vars

\* request sizes that make place() meet each of its cases: adjusted sizes
\* 16, 72, 112, 3904 and 4008
SplitSizes == {8, 64, 100, 3896, 4000}

\* mm_init, mm_malloc and mm_free only, with these sizes
NextMallocFree ==
    \/ MmInit
    \/ \E size \in SplitSizes : Malloc(size)
    \/ \E i \in 1..MaxLive : Free(i)

SpecMallocFree == Init /\ [][NextMallocFree]_vars

-----------------------------------------------------------------------------
(* What the claims speak of *)

\* the machine before the last call
PreMachine ==
    [mem |-> pre.mem, brk |-> pre.brk, lists |-> pre.lists, junk |-> junk,
     st |-> "ok", sbrk |-> <<>>]

\* the last call was op and has returned
Returned(op) == last.op = op /\ status = "ok"

\* some mem_sbrk call of the last call has failed
SbrkFailed == \E k \in 1..Len(last.sbrk) : ~last.sbrk[k][2]

\* the last call has left the heap bytes, the heap size and the 20 bucket
\* heads as they were
Unchanged ==
    /\ \A a \in (DOMAIN mem) \cup (DOMAIN pre.mem) :
          GET(Machine, a) = GET(PreMachine, a)
    /\ mem_brk = pre.brk
    /\ segregated_free_lists = pre.lists

\* size of the block of the payload pointer p, from its header
BlockSize(h, p) == GET_SIZE(h, HDRP(p))

\* the byte ranges [p - 4, p - 4 + size) of the blocks of p and q meet; a
\* size of 2^31 or more reaches every address after its block's header
Overlap(h, p, q) ==
    LET ps == BlockSize(h, p)
        qs == BlockSize(h, q)
    IN  /\ (qs < 0 \/ p - WSIZE < (q - WSIZE) + qs)
        /\ (ps < 0 \/ q - WSIZE < (p - WSIZE) + ps)

-----------------------------------------------------------------------------
(* C1 *)

\* C1: no two live allocated blocks overlap: for any two pointers the caller
\* holds, the byte ranges [p - 4, p - 4 + block size) are disjoint, also
\* after mm_realloc has grown a block in place.
C1_NoOverlap ==
    status = "ok" =>
        \A i, j \in 1..Len(allocs) :
            i < j => ~Overlap(Machine, allocs[i].ptr, allocs[j].ptr)

-----------------------------------------------------------------------------
(* C2 *)

\* C2: every non-NULL pointer mm_malloc or mm_realloc returns is a multiple
\* of 8, and its whole block lies after the prologue and before the epilogue
\* header of the heap as it is then.
C2_ReturnedInHeap ==
    ((Returned("malloc") \/ Returned("realloc")) /\ last.ret # NULL) =>
        /\ last.ret % ALIGNMENT = 0
        /\ HDRP(last.ret) >= mem_start_brk + 3 * WSIZE
        /\ HDRP(last.ret) < mem_brk - WSIZE
        /\ BlockSize(Machine, last.ret) >= 0
        /\ HDRP(last.ret) + BlockSize(Machine, last.ret) <= mem_brk - WSIZE

-----------------------------------------------------------------------------
(* C3 *)

\* C3: for every request size > 0 of the 32-bit size type, a non-NULL result
\* of mm_malloc is a block whose size minus 8 is at least the request, and
\* whose size is at least 16.
C3_BlockHoldsRequest ==
    (Returned("malloc") /\ last.ret # NULL) =>
        /\ ~LtU(SubW(BlockSize(Machine, last.ret), DSIZE), last.size)
        /\ ~LtU(BlockSize(Machine, last.ret), 2 * DSIZE)

-----------------------------------------------------------------------------
(* C4 *)

\* C4: when mem_sbrk fails during mm_realloc, on the in-place growth path or
\* on the allocate-copy-free path, mm_realloc returns NULL and the heap, the
\* heap size and the 20 bucket heads are as before the call.
C4_ReallocFailureClean ==
    (last.op = "realloc" /\ SbrkFailed) =>
        (status = "ok" /\ last.ret = NULL /\ Unchanged)

-----------------------------------------------------------------------------
(* C5 *)

\* C5: when mm_malloc finds no fitting free block and mem_sbrk fails,
\* mm_malloc returns NULL and the heap contents, the heap size and the 20
\* bucket heads are as before the call.
C5_MallocFailureClean ==
    (last.op = "malloc" /\ SbrkFailed) =>
        (status = "ok" /\ last.ret = NULL /\ Unchanged)

\* mm_malloc has failed for want of heap while the caller holds a block
C5_Witness ==
    /\ Returned("malloc") /\ SbrkFailed /\ last.ret = NULL
    /\ allocs # <<>>

-----------------------------------------------------------------------------
(* C6 *)

\* bytes of a region the claims compare
MaxCompare == 128

\* the first n bytes at p in h and at q in g are the same (p and q are
\* multiples of 4); n is taken as unsigned, and at most MaxCompare bytes are
\* compared
SameBytes(h, p, g, q, n) ==
    LET len == IF LtU(MaxCompare, n) THEN MaxCompare ELSE n
    IN  \A i \in 0..(((len + WSIZE - 1) \div WSIZE) - 1) :
            LET k == IF len - i * WSIZE >= WSIZE THEN WSIZE ELSE len - i * WSIZE
            IN  MergeBytes(0, GET(h, p + i * WSIZE), k)
                    = MergeBytes(0, GET(g, q + i * WSIZE), k)

\* C6: after q = mm_realloc(p, n) succeeds on a live block p, on either path,
\* the first min(old request, n) payload bytes at q equal the bytes that were
\* at p just before the call.
C6_ResizeKeepsBytes ==
    (Returned("realloc") /\ last.ret # NULL) =>
        SameBytes(Machine, last.ret, PreMachine, last.ptr,
                  MIN(last.req, last.size))

-----------------------------------------------------------------------------
(* C7 *)

\* mm_realloc(p, n) finds room at p in the heap h: the block of p has the
\* adjusted size of n and REALLOC_BUFFER more, or the block after it is free
\* or the epilogue
RoomInPlace(h, p, n) ==
    \/ SubW(BlockSize(h, p), AddW(AdjustedSize(n), REALLOC_BUFFER)) >= 0
    \/ GET_ALLOC(h, HDRP(NEXT_BLKP(h, p))) = 0
    \/ GET_SIZE(h, HDRP(NEXT_BLKP(h, p))) = 0

\* C7 as stated: mm_realloc(p, n) with n the size p was requested with
\* returns p itself.
C7_SameSizeSamePointer ==
    (Returned("realloc") /\ last.size = last.req) => last.ret = last.ptr

\* C7, amended: mm_realloc(p, n) with n the size p was requested with, when
\* it succeeds, returns p itself exactly when the block of p already has the
\* adjusted size of n plus 128 bytes or the block after p is free or the
\* epilogue; otherwise the bytes move to another block.
C7_SamePointerIffRoom ==
    (Returned("realloc") /\ last.size = last.req /\ last.ret # NULL) =>
        (last.ret = last.ptr <=> RoomInPlace(PreMachine, last.ptr, last.size))

\* a block resized to the size it was requested with has moved
C7_Witness ==
    /\ Returned("realloc") /\ last.size = last.req
    /\ last.ret # NULL /\ last.ret # last.ptr

-----------------------------------------------------------------------------
(* C8 *)

\* C8: a request of size 0 changes nothing: mm_malloc(0) and mm_realloc(p, 0)
\* return NULL, do not call mem_sbrk, and leave every heap word and every
\* bucket head as it was, so that p stays allocated and held.
C8_ZeroSizeNoEffect ==
    ((last.op = "malloc" \/ last.op = "realloc") /\ last.size = 0) =>
        /\ status = "ok" /\ last.ret = NULL
        /\ last.sbrk = <<>>
        /\ Unchanged
        /\ last.op = "realloc" =>
              \E i \in 1..Len(allocs) : allocs[i].ptr = last.ptr

\* mm_realloc(p, 0) has returned on a block the caller holds beside another
C8_Witness ==
    /\ Returned("realloc") /\ last.size = 0 /\ last.ret = NULL
    /\ Len(allocs) >= 2

-----------------------------------------------------------------------------
(* C9, C10 *)

\* blocks a walk of the heap visits at most
MaxBlocks == 12

RECURSIVE BlockSeq(_, _, _)
\* the blocks of the heap from the payload pointer p on, as
\* <<address, size, allocation bit>>, up to the epilogue
BlockSeq(h, p, n) ==
    IF n = 0 \/ p < mem_start_brk + 4 * WSIZE \/ p > h.brk THEN <<>>
    ELSE IF BlockSize(h, p) = 0
        THEN <<<<p, 0, GET_ALLOC(h, HDRP(p))>>>>
    ELSE <<<<p, BlockSize(h, p), GET_ALLOC(h, HDRP(p))>>>>
            \o BlockSeq(h, AddW(p, BlockSize(h, p)), n - 1)

\* the blocks of the heap, first to epilogue
Blocks(h) == BlockSeq(h, mem_start_brk + 4 * WSIZE, MaxBlocks)

RECURSIVE ListNodes(_, _, _)
\* the nodes of a bucket list from ptr on, following PRED
ListNodes(h, ptr, seen) ==
    IF ptr = NULL \/ ptr \in seen \/ ~Valid(h, ptr) THEN seen
    ELSE ListNodes(h, PRED(h, ptr), seen \cup {ptr})

\* the blocks the index holds
Indexed(h) ==
    UNION {ListNodes(h, h.lists[list], {}) : list \in 0..(LISTLIMIT - 1)}

\* C9: in a state reached by mm_init, mm_malloc and mm_free, if mm_malloc(n)
\* succeeds without extending the heap, then freeing the returned pointer at
\* once gives back the blocks as they were before the mm_malloc: the same
\* addresses, sizes and allocation bits, and the same set of indexed blocks.
C9_FreeUndoesMalloc ==
    [][(/\ Returned("malloc") /\ last.ret # NULL /\ last.sbrk = <<>>
        /\ ~hist.resized
        /\ last'.op = "free" /\ last'.ptr = last.ret)
       => (/\ status' = "ok"
           /\ Blocks(Machine)' = Blocks(PreMachine)
           /\ Indexed(Machine)' = Indexed(PreMachine))]_vars

\* C10: after mm_init and mm_malloc and mm_free calls after which every
\* returned pointer has been freed, the index holds one free block, and it
\* spans the heap between prologue and epilogue: its size is the heap size
\* minus 16.
C10_AllFreedOneBlock ==
    (status = "ok" /\ ~hist.resized /\ allocs = <<>>) =>
        /\ Indexed(Machine) = {mem_start_brk + 4 * WSIZE}
        /\ GET(Machine, HDRP(mem_start_brk + 4 * WSIZE))
              = PACK((mem_brk - mem_start_brk) - 4 * WSIZE, 0)

-----------------------------------------------------------------------------
(* C11 *)

\* remainder of the last call, an mm_realloc: the sizes of the block of
\* last.ptr and of its next block less new_size, before the call
GrowRemainder ==
    SubW(AddW(BlockSize(PreMachine, last.ptr),
              BlockSize(PreMachine, NEXT_BLKP(PreMachine, last.ptr))),
         AddW(AdjustedSize(last.size), REALLOC_BUFFER))

\* extendsize of the last call for that remainder; for a remainder of INT_MIN
\* it is the size the call has passed to mem_sbrk
GrowExtend ==
    extendsize(GrowRemainder,
               IF last.sbrk = <<>> THEN INT_MIN ELSE last.sbrk[1][1])

\* the machine in which mm_realloc's in-place growth rewrites the header of
\* last.ptr: the machine before the call, after extend_heap when the block
\* and its next block are too small together
GrowMachine ==
    IF GrowRemainder < 0 THEN extend_heap(PreMachine, GrowExtend).h
    ELSE PreMachine

\* the last call was an mm_realloc that returned its argument with a
\* rewritten header
GrewInPlace ==
    /\ Returned("realloc") /\ last.ret # NULL /\ last.ret = last.ptr
    /\ BlockSize(Machine, last.ptr) # BlockSize(PreMachine, last.ptr)

\* C11: when mm_realloc grows a block in place, the grown block covers the
\* bytes of the original block and of the one free block that was next to it
\* just before the rewrite, and nothing else.
C11_GrowsIntoNextOnly ==
    GrewInPlace =>
        /\ GET_ALLOC(GrowMachine, HDRP(NEXT_BLKP(GrowMachine, last.ptr))) = 0
        /\ BlockSize(Machine, last.ptr)
              = BlockSize(GrowMachine, last.ptr)
                  + BlockSize(GrowMachine, NEXT_BLKP(GrowMachine, last.ptr))

-----------------------------------------------------------------------------
(* C12 .. C18: the heap and the index after a public operation *)

RECURSIVE SumSizes(_, _)
\* the sum of the sizes of the blocks b[1..i]
SumSizes(b, i) == IF i = 0 THEN 0 ELSE b[i][2] + SumSizes(b, i - 1)

\* C12: after every public operation, the walk of the heap by header sizes
\* ends at the epilogue header, the last word of the heap, and the sizes of
\* the blocks it visits add up to the heap size minus 16.
C12_BlocksTileHeap ==
    status = "ok" =>
        /\ Blocks(Machine) # <<>>
        /\ Blocks(Machine)[Len(Blocks(Machine))] = <<mem_brk, 0, 1>>
        /\ SumSizes(Blocks(Machine), Len(Blocks(Machine)))
              = (mem_brk - mem_start_brk) - 4 * WSIZE

\* C13: after every public operation, no two blocks next to each other in
\* the walk of the heap are both free.
C13_NoAdjacentFree ==
    status = "ok" =>
        \A i \in 1..(Len(Blocks(Machine)) - 1) :
            ~(Blocks(Machine)[i][3] = 0 /\ Blocks(Machine)[i + 1][3] = 0)

\* the free blocks of the walk of the heap
FreeBlocks(h) ==
    {Blocks(h)[i][1] : i \in {j \in 1..Len(Blocks(h)) : Blocks(h)[j][3] = 0}}

RECURSIVE BucketSeq(_, _, _)
\* the nodes of a bucket list from ptr on, following PRED, n at most
BucketSeq(h, ptr, n) ==
    IF ptr = NULL \/ n = 0 THEN <<>>
    ELSE IF ~Valid(h, ptr) THEN <<ptr>>
    ELSE <<ptr>> \o BucketSeq(h, PRED(h, ptr), n - 1)

\* the list of bucket k, walked from its head
Bucket(h, k) == BucketSeq(h, h.lists[k], MaxBlocks)

\* no node is met twice in the walks of the 20 buckets
LinkedOnce(h) ==
    /\ \A k \in 0..(LISTLIMIT - 1) : \A i, j \in 1..Len(Bucket(h, k)) :
          i < j => Bucket(h, k)[i] # Bucket(h, k)[j]
    /\ \A k, l \in 0..(LISTLIMIT - 1) : \A i \in 1..Len(Bucket(h, k)) :
          \A j \in 1..Len(Bucket(h, l)) :
              k < l => Bucket(h, k)[i] # Bucket(h, l)[j]

\* C14: after every public operation, the blocks linked into the index are
\* the free blocks of the heap, each met once in the walks of the buckets.
C14_IndexedIffFree ==
    status = "ok" =>
        /\ Indexed(Machine) = FreeBlocks(Machine)
        /\ LinkedOnce(Machine)

\* C15: in every reachable state, the sizes of the blocks of a bucket do not
\* decrease along its walk from the head by PRED.
C15_BucketAscending ==
    status = "ok" =>
        \A k \in 0..(LISTLIMIT - 1) : \A i \in 1..(Len(Bucket(Machine, k)) - 1) :
            LeU(BlockSize(Machine, Bucket(Machine, k)[i]),
                BlockSize(Machine, Bucket(Machine, k)[i + 1]))

\* a block of this size belongs to bucket k
InClass(size, k) ==
    IF k = LISTLIMIT - 1 THEN size < 0 \/ size >= 2 ^ k
    ELSE size >= 2 ^ k /\ size < 2 ^ (k + 1)

\* C16: after every public operation, every block linked in bucket k has a
\* header size in [2^k, 2^(k+1)), or of at least 2^19 for bucket 19.
C16_BucketHoldsClass ==
    status = "ok" =>
        \A k \in 0..(LISTLIMIT - 1) : \A i \in 1..Len(Bucket(Machine, k)) :
            InClass(BlockSize(Machine, Bucket(Machine, k)[i]), k)

\* the list of bucket k is a doubly-linked list that ends
WellLinked(h, k) ==
    /\ Len(Bucket(h, k)) < MaxBlocks
    /\ \A i \in 1..Len(Bucket(h, k)) : Valid(h, Bucket(h, k)[i])
    /\ \A i, j \in 1..Len(Bucket(h, k)) : i < j => Bucket(h, k)[i] # Bucket(h, k)[j]
    /\ h.lists[k] # NULL => SUCC(h, h.lists[k]) = NULL
    /\ \A i \in 1..Len(Bucket(h, k)) :
          PRED(h, Bucket(h, k)[i]) # NULL
              => SUCC(h, PRED(h, Bucket(h, k)[i])) = Bucket(h, k)[i]

\* C17: after every public operation, the list of every bucket reaches NULL
\* by PRED without meeting a block twice, its head has no SUCC, and
\* SUCC(PRED(x)) = x for every linked block x that has a PRED.
C17_ListsWellLinked ==
    status = "ok" => \A k \in 0..(LISTLIMIT - 1) : WellLinked(Machine, k)

\* C18: after every public operation, the header and the footer of every
\* block of the walk of the heap before the epilogue hold the same word.
C18_HeaderEqualsFooter ==
    status = "ok" =>
        \A i \in 1..Len(Blocks(Machine)) :
            Blocks(Machine)[i][2] # 0 =>
                GET(Machine, HDRP(Blocks(Machine)[i][1]))
                    = GET(Machine, FTRP(Machine, Blocks(Machine)[i][1]))

-----------------------------------------------------------------------------
(* C19, C20: place *)

\* the call place(ptr, asize) of an mm_malloc(size) that starts in the machine
\* h: [h, ret], the machine place starts in and its argument ptr, which is
\* the fit f that the search found or else what extend_heap returns
PlaceCallOf(h, f, asize) ==
    IF f.ptr # NULL THEN [h |-> h, ret |-> f.ptr]
    ELSE extend_heap(h, MAX(asize, CHUNKSIZE))

\* the call of place of the last mm_malloc
PlaceCall ==
    PlaceCallOf(PreMachine,
                SearchLists(PreMachine, 0, AdjustedSize(last.size),
                            AdjustedSize(last.size)),
                AdjustedSize(last.size))

\* the last call was an mm_malloc that has called place and returned
Placed == Returned("malloc") /\ last.ret # NULL

\* size(ptr) - asize of the call c of place
Remainder(c, asize) == SubW(BlockSize(c.h, c.ret), asize)

\* place, called as c, has left the machine h and returned ret without a
\* split: the whole block is allocated with its size, ptr has left the index
\* and nothing has entered it, and ptr is returned
NoSplit(c, h, ret) ==
    /\ ret = c.ret
    /\ GET(h, HDRP(c.ret)) = PACK(BlockSize(c.h, c.ret), 1)
    /\ GET(h, FTRP(h, c.ret)) = PACK(BlockSize(c.h, c.ret), 1)
    /\ Indexed(h) = Indexed(c.h) \ {c.ret}

\* place, called as c, has split with the free remainder at the lower address
SplitRemainderFirst(c, h, ret, asize) ==
    /\ ret = AddW(c.ret, Remainder(c, asize))
    /\ GET(h, HDRP(c.ret)) = PACK(Remainder(c, asize), 0)
    /\ GET(h, FTRP(h, c.ret)) = PACK(Remainder(c, asize), 0)
    /\ GET(h, HDRP(ret)) = PACK(asize, 1)
    /\ GET(h, FTRP(h, ret)) = PACK(asize, 1)
    /\ Indexed(h) = Indexed(c.h) \cup {c.ret}

\* place, called as c, has split with the allocated block at the lower address
SplitAllocatedFirst(c, h, ret, asize) ==
    /\ ret = c.ret
    /\ GET(h, HDRP(c.ret)) = PACK(asize, 1)
    /\ GET(h, FTRP(h, c.ret)) = PACK(asize, 1)
    /\ GET(h, HDRP(AddW(c.ret, asize))) = PACK(Remainder(c, asize), 0)
    /\ GET(h, FTRP(h, AddW(c.ret, asize))) = PACK(Remainder(c, asize), 0)
    /\ Indexed(h) = (Indexed(c.h) \ {c.ret}) \cup {AddW(c.ret, asize)}

\* place, called as c, does not split when the remainder is below limit
NoSplitBelow(c, asize, limit) ==
    LtU(Remainder(c, asize), limit) => NoSplit(c, Machine, last.ret)

\* place, called as c, does not split exactly when the remainder is below
\* limit
NoSplitIffBelow(c, asize, limit) ==
    LtU(Remainder(c, asize), limit) <=> NoSplit(c, Machine, last.ret)

\* C19 as stated: place(ptr, asize) does not split whenever size(ptr) - asize
\* is less than 32: the block is allocated whole, nothing enters the index
\* and ptr is returned.
C19_NoSplitBelow32 ==
    Placed => NoSplitBelow(PlaceCall, AdjustedSize(last.size), 4 * DSIZE)

\* C19, amended: place(ptr, asize) does not split exactly when size(ptr) -
\* asize is at most 16, that is less than 24: then the block is allocated
\* whole, nothing enters the index and ptr is returned; with 24 bytes or
\* more it splits.
C19_NoSplitUpTo16 ==
    Placed => NoSplitIffBelow(PlaceCall, AdjustedSize(last.size), 3 * DSIZE)

\* place has left a block whole whose remainder was 16
C19_WitnessOf(c, asize) ==
    Remainder(c, asize) = 2 * DSIZE /\ NoSplit(c, Machine, last.ret)

\* mm_malloc has placed a request in a block 16 bytes larger, unsplit
C19_Witness ==
    Placed /\ C19_WitnessOf(PlaceCall, AdjustedSize(last.size))

\* when place, called as c, splits, the remainder comes first for an asize of
\* at least threshold and the allocated block comes first below it
SplitDirection(c, asize, threshold) ==
    GtU(Remainder(c, asize), 2 * DSIZE) =>
        IF ~LtU(asize, threshold)
            THEN SplitRemainderFirst(c, Machine, last.ret, asize)
        ELSE SplitAllocatedFirst(c, Machine, last.ret, asize)

\* C20 as stated: when place(ptr, asize) splits, for every asize of at least
\* 72 the free remainder keeps the lower address and the upper part is
\* returned; for every smaller asize ptr is returned and the free remainder
\* follows it.
C20_SplitAt72 ==
    Placed => SplitDirection(PlaceCall, AdjustedSize(last.size), 72)

\* C20, amended: the threshold is 73: for every asize of at least 73 (80 and
\* more, asize being a multiple of 8) the free remainder keeps the lower
\* address and the upper part is returned; for every asize up to 72 ptr is
\* returned and the free remainder follows it.
C20_SplitAt73 ==
    Placed => SplitDirection(PlaceCall, AdjustedSize(last.size), SPLIT_THRESHOLD)

\* place has split for an asize of 72 and returned the lower part
C20_WitnessOf(c, asize) ==
    /\ asize = SPLIT_THRESHOLD - 1
    /\ GtU(Remainder(c, asize), 2 * DSIZE)
    /\ SplitAllocatedFirst(c, Machine, last.ret, asize)

\* mm_malloc has placed a request of adjusted size 72 with a split
C20_Witness ==
    Placed /\ C20_WitnessOf(PlaceCall, AdjustedSize(last.size))

-----------------------------------------------------------------------------
(* C21 *)

\* the free blocks of the index of h whose size is at least asize
Fits(h, asize) ==
    {p \in Indexed(h) :
        GET_ALLOC(h, HDRP(p)) = 0 /\ ~LtU(BlockSize(h, p), asize)}

\* the asize bytes of the block at ret lie in the block of h at p
Within(h, p, ret, asize) == ret >= p /\ ret + asize <= p + BlockSize(h, p)

\* C21: mm_malloc extends the heap only when no free block of the index has
\* a size of at least asize: if a block of any bucket fits, the request is
\* served from an indexed block and mem_sbrk is not called; otherwise
\* mem_sbrk is called exactly once, for max(asize, 4096) bytes.
C21_ExtendsOnlyWithoutFit ==
    (last.op = "malloc" /\ last.size # 0) =>
        IF Fits(PreMachine, AdjustedSize(last.size)) # {}
           THEN /\ status = "ok"
                /\ last.sbrk = <<>>
                /\ \E p \in Fits(PreMachine, AdjustedSize(last.size)) :
                      Within(PreMachine, p, last.ret, AdjustedSize(last.size))
        ELSE /\ Len(last.sbrk) = 1
             /\ last.sbrk[1][1] = MAX(AdjustedSize(last.size), CHUNKSIZE)

-----------------------------------------------------------------------------
(* C22 *)

\* align8(size + 8) + 128, or 16 + 128 when size is at most 8, is a size_t:
\* the sum does not wrap around
BufferedSizeFits(size) == LeU(size, NegW(2 * DSIZE + REALLOC_BUFFER))

\* align8(size + 8) + 128, or 16 + 128 when size is at most 8
BufferedSize(size) == AddW(AdjustedSize(size), REALLOC_BUFFER)

\* before the last call the block at its ptr had the buffered size of its size
HadBufferedSize ==
    /\ BufferedSizeFits(last.size)
    /\ ~LtU(BlockSize(PreMachine, last.ptr), BufferedSize(last.size))

\* C22, as stated: if the block at ptr already has a size of at least
\* align8(size + 8) + 128 (16 + 128 when size is at most 8), mm_realloc(ptr,
\* size) returns ptr and leaves every heap word, the heap size and the 20
\* bucket lists unchanged.
C22_BufferedReturnsPtr ==
    (last.op = "realloc" /\ HadBufferedSize) =>
        /\ status = "ok" /\ last.ret = last.ptr
        /\ Unchanged

\* C22, amended: under the same condition and for a size other than 0,
\* mm_realloc(ptr, size) returns ptr and leaves every heap word, the heap size
\* and the 20 bucket lists unchanged, and does not call mem_sbrk.
C22_BufferedNonZeroReturnsPtr ==
    (last.op = "realloc" /\ last.size # 0 /\ HadBufferedSize) =>
        /\ status = "ok" /\ last.ret = last.ptr
        /\ Unchanged
        /\ last.sbrk = <<>>

\* mm_realloc has returned for a size other than 0 on a block that had the
\* buffered size, with a free block or the epilogue after it
C22_Witness ==
    /\ Returned("realloc") /\ last.size # 0 /\ HadBufferedSize
    /\ last.ret = last.ptr
    /\ \/ GET_ALLOC(PreMachine, HDRP(NEXT_BLKP(PreMachine, last.ptr))) = 0
       \/ GET_SIZE(PreMachine, HDRP(NEXT_BLKP(PreMachine, last.ptr))) = 0

====
